---- MODULE Spec2Model ----
(***************************************************************************)
(* Model of the playback coordination of music_bot: the shared             *)
(* PlayingState record (discord_client.py), the coroutines the interface   *)
(* dispatches to the voice-client event loop (start_playback,              *)
(* pause_toggle, leave_voice), the interface's 500 ms timer (gui.py tick)  *)
(* with the end-of-track policy (on_track_end), and the list widgets the   *)
(* policy reads.                                                           *)
(*                                                                         *)
(* Threads.  The interface thread runs one handler at a time.  The         *)
(* voice-client thread runs one event loop: a coroutine runs without       *)
(* interruption by other coroutines up to its next suspending await, but   *)
(* the timer on the interface thread interleaves with it statement by      *)
(* statement.  `running` is the position in `tasks` of the coroutine that  *)
(* is in the middle of such a synchronous run.                             *)
(*                                                                         *)
(* Time.  `now` is time.time() in whole units; code runs in zero time, so  *)
(* the clock only advances while no coroutine is in a synchronous run and  *)
(* the interface is between handlers.                                      *)
(*                                                                         *)
(* Python values.  None is -1 in the integer fields (names, urls, times),  *)
(* "" is 0; the two flags hold "True", "False" or "None".  List indices    *)
(* are Python's (0-based), -1 is "no selection".                           *)
(*                                                                         *)
(* Specifications.  Spec is the controller on one track with the timer in  *)
(* the modes stop and loop; SpecRace is overlapping requests for two       *)
(* tracks, SpecRaceLive the same with a fair event loop, SpecLeave the same*)
(* with the voice channel left; SpecGui is playback from the lists with the*)
(* timer in the modes next and random, SpecDel the same with playlists and *)
(* tracks deleted; SpecLoop is replay of two tracks in the mode loop,      *)
(* SpecEnds the same with pauses, SpecPreview the same with the thumbnail  *)
(* requests answering; SpecStore is the playlist manager driven at its     *)
(* boundary over the playlists file, SpecOrder the same with three names;  *)
(* SpecLists is the lists over a file whose tracks do not all carry a vid; *)
(* SpecForm is the track edit form on one playlist, SpecFormMove the form  *)
(* moving a track between playlists.                                       *)
(***************************************************************************)
EXTENDS Integers, Sequences, FiniteSets

\* ------------------------------------------------------------------ bounds
MaxTime == 2
MaxTasks == 2
MaxTracks == 2

\* ------------------------------------------------------------ Python values
None == -1
Empty == 0

Truthy(x) == x > 0

Max(a, b) == IF a >= b THEN a ELSE b
Min(a, b) == IF a <= b THEN a ELSE b

Remove(s, i) == SubSeq(s, 1, i - 1) \o SubSeq(s, i + 1, Len(s))

\* ------------------------------------------------------------------- tracks
\* A track is the dict {"title", "url"}, with a "vid" once its video id has
\* been looked up; titles and urls are numbered.
Track(t, u) == [title |-> t, url |-> u]
NoTrack == [title |-> None, url |-> None]

\* youtube_id: the 11-character id in the url, None for a url without one
\* (url 3 is such a url).
youtube_id(u) == IF u \in {1, 2} THEN u ELSE None

\* refresh_tracks 393-394: vid = tr.get("vid") or youtube_id(tr["url"]);
\* tr["vid"] = vid
memo_vid(tr) ==
    [title |-> tr.title, url |-> tr.url,
     vid |-> IF "vid" \in DOMAIN tr /\ Truthy(tr.vid) THEN tr.vid ELSE youtube_id(tr.url)]

\* The tracks of the playlists file carry their vid.
T1 == memo_vid(Track(1, 1))
T2 == memo_vid(Track(2, 2))
T3 == memo_vid(Track(3, 1))

\* What yt-dlp answers for a url: the stream url, the video id and the
\* duration in time units (0: unknown, info.get("duration", 0)).
Duration(u) == IF u = 1 THEN 1 ELSE 0
ytdlp_extract(u) == [url |-> u, id |-> u, duration |-> Duration(u)]

\* f"https://i.ytimg.com/vi/{info['id']}/hqdefault.jpg"
ThumbUrl(info) == info.id

\* ---------------------------------------------------------------- playlists
Playlist(n, trs) == [name |-> n, tracks |-> trs]
InitPlaylists == << Playlist(1, <<T1, T2>>), Playlist(2, <<T3>>) >>

\* The dict pm.data is the sequence of its items in insertion order.
\* d[k] = v: a new key goes to the end, an existing one keeps its place.
dict_set(d, k, v) ==
    IF \E i \in DOMAIN d : d[i].name = k
    THEN [i \in DOMAIN d |-> IF d[i].name = k THEN Playlist(k, v) ELSE d[i]]
    ELSE Append(d, Playlist(k, v))

has_key(d, k) == \E i \in DOMAIN d : d[i].name = k
key_index(d, k) == CHOOSE i \in DOMAIN d : d[i].name = k

\* d.pop(k)
dict_pop(d, k) == Remove(d, key_index(d, k))

\* refresh_tracks (386-397) writes the vid into every track of playlist k + 1.
memo_playlist(d, k) ==
    [d EXCEPT ![k].tracks = [j \in DOMAIN d[k].tracks |-> memo_vid(d[k].tracks[j])]]

\* ------------------------------------------------------- the playlists file
\* A JSON document: a scalar is <<"null">> or <<"str", s>>, an object is the
\* sequence of its members <<key, value>> in the order written, an array the
\* sequence of its elements.
json_scalar(x) == IF x = None THEN <<"null">> ELSE <<"str", x>>
py_scalar(j) == IF j[1] = "null" THEN None ELSE j[2]

json_track(tr) ==
    << <<"title", json_scalar(tr.title)>>, <<"url", json_scalar(tr.url)>> >>
    \o (IF "vid" \in DOMAIN tr THEN << <<"vid", json_scalar(tr.vid)>> >> ELSE << >>)

\* json.dump(self._data, ...) (playlist_manager.py 53-54): the items in dict order.
json_dump(d) ==
    [i \in DOMAIN d |->
        << d[i].name, [j \in DOMAIN d[i].tracks |-> json_track(d[i].tracks[j])] >>]

member(obj, key) == obj[CHOOSE i \in DOMAIN obj : obj[i][1] = key][2]

\* A reader that gives every track a vid.
py_track_vid(obj) ==
    [title |-> py_scalar(member(obj, "title")), url |-> py_scalar(member(obj, "url")),
     vid |-> IF \E i \in DOMAIN obj : obj[i][1] = "vid"
             THEN py_scalar(member(obj, "vid")) ELSE None]

py_track(obj) ==
    IF \E i \in DOMAIN obj : obj[i][1] = "vid"
    THEN [title |-> py_scalar(member(obj, "title")), url |-> py_scalar(member(obj, "url")),
          vid |-> py_scalar(member(obj, "vid"))]
    ELSE [title |-> py_scalar(member(obj, "title")), url |-> py_scalar(member(obj, "url"))]

RECURSIVE json_load_from(_, _, _)
json_load_from(doc, i, d) ==
    IF i > Len(doc) THEN d
    ELSE json_load_from(doc, i + 1,
             dict_set(d, doc[i][1], [j \in DOMAIN doc[i][2] |-> py_track(doc[i][2][j])]))

\* json.load(f) (playlist_manager.py 43-44): the members are inserted into a
\* dict one after the other.
json_load(doc) == json_load_from(doc, 1, << >>)

VARIABLES
    now,            \* time.time()
    st,             \* PLAYING_STATE
    vc,             \* bot.voice_clients[0] and what it streams
    vc_lock,        \* vc_lock.locked()
    loop_blocked,   \* the event-loop thread is blocked in vc_lock.acquire()
    tasks,          \* the coroutines pending on the loop, in dispatch order
    running,        \* the position of the coroutine in a synchronous run, or 0
    ytdlp_cache,    \* _ytdlp_cache (the urls it holds)
    playlists,      \* pm.data, in order
    disk,           \* the playlists file
    pl_sel,         \* pl_lb.curselection()
    tv_items,       \* the tracks tr_tv shows (item i has iid str(i))
    tr_sel,         \* tr_tv.selection()
    mode,           \* mode_var
    current_track,  \* MusicGUI.current_track
    fetching,       \* the thumbnail urls the running _load_preview threads fetch
    tr_form,        \* the track form: shown or not, tr_src_pl, tr_src_idx and its three fields
    tick_pc,        \* the timer: "idle" (scheduled), "post" (inside tick, after on_track_end), "dead"
    last_op,        \* history: the coroutine that returned or raised last, and how
    unpaused,       \* history: time the stream spent not paused since vc.play()
    scope,          \* history: since the last completed start_playback only pause_toggle ran
    fired           \* history: on_track_end has run for the track PLAYING_STATE holds

vars == << now, st, vc, vc_lock, loop_blocked, tasks, running, ytdlp_cache,
           playlists, disk, pl_sel, tv_items, tr_sel, mode, current_track, fetching, tr_form,
           tick_pc, last_op, unpaused, scope, fired >>

gui_lists == << playlists, disk, pl_sel, tv_items, tr_sel >>
gui_vars == << playlists, disk, pl_sel, tv_items, tr_sel, mode, current_track, fetching, tr_form, tick_pc >>
ghost == << unpaused, scope, fired >>
bot_vars == << vc, vc_lock, loop_blocked, running, ytdlp_cache >>

\* ------------------------------------------------------------ PlayingState
\* The dataclass defaults (discord_client.py 61-73).
DefaultState ==
    [title |-> Empty, src_url |-> Empty, thumb_url |-> Empty, duration |-> 0,
     start_time |-> 0, paused |-> "False", pause_at |-> 0,
     preview_loaded |-> None, preview_loader_started |-> "False"]

\* clear(): `default` is built by __new__ without __init__ and the dataclass has
\* slots, so no field of `default` is set and getattr(default, name, None) is
\* None for every field.
clear(s) ==
    [title |-> None, src_url |-> None, thumb_url |-> None, duration |-> None,
     start_time |-> None, paused |-> "None", pause_at |-> None,
     preview_loaded |-> None, preview_loader_started |-> "None"]

is_playing(s) == Truthy(s.title)

\* elapsed_seconds raises TypeError when an operand of the subtraction is None.
elapsed_raises(s) ==
    /\ is_playing(s)
    /\ \/ s.start_time = None
       \/ s.paused = "True" /\ s.pause_at = None

elapsed_seconds(s, t) ==
    IF ~is_playing(s) THEN 0
    ELSE IF s.paused = "True" THEN s.pause_at - s.start_time
    ELSE t - s.start_time

\* ------------------------------------------------------------- voice client
\* connected: bot.voice_clients is non-empty.  state: "connecting" until
\* ch.connect() has returned, then "idle", "playing" or "paused"; src is the
\* stream url being played.
NoVc == [connected |-> FALSE, state |-> "idle", src |-> 0]

vc_is_playing == vc.connected /\ vc.state = "playing"
vc_is_paused == vc.connected /\ vc.state = "paused"

\* ------------------------------------------------------------------- tasks
\* kind: the coroutine; pc: where it is; track: its argument; vcref: the
\* VoiceClient it holds ("live": the one in bot.voice_clients, "stale": one
\* that was disconnected since).  el0, later and left are history:
\* elapsed_seconds when a pause_toggle began, the track of a start_playback
\* that was dispatched after this one and has completed, and whether a
\* leave_voice dispatched after this one has disconnected the bot.
Task(kind, tr) ==
    [kind |-> kind, pc |-> "queued", track |-> tr, vcref |-> "none", el0 |-> 0,
     later |-> NoTrack, left |-> FALSE]

TaskIds == 1..Len(tasks)
Slots == 1..MaxTasks

\* A coroutine that has returned or raised leaves the loop.
Finish(i) == Remove(tasks, i)
NoOp == [kind |-> "none", pc |-> "none"]
Outcome(i, how) == [kind |-> tasks[i].kind, pc |-> how]

\* run_async: asyncio.run_coroutine_threadsafe(coro, BOT_LOOP)
run_async(ts, kind, tr) == Append(ts, Task(kind, tr))

CanDispatch == Len(tasks) < MaxTasks

\* The loop starts callbacks in the order they were scheduled.
Startable(i) ==
    /\ i \in TaskIds
    /\ tasks[i].pc = "queued"
    /\ running = 0
    /\ ~loop_blocked
    /\ \A j \in TaskIds : j < i => tasks[j].pc /= "queued"

\* run_coroutine_threadsafe wakes the loop: a coroutine the loop can start is
\* started before anything else happens.
Urgent ==
    /\ running = 0
    /\ ~loop_blocked
    /\ \E i \in TaskIds : tasks[i].pc = "queued"

\* A suspended coroutine is resumed when the loop is free.
Resumable(i, pc) ==
    /\ i \in TaskIds
    /\ tasks[i].pc = pc
    /\ running = 0
    /\ ~loop_blocked
    /\ ~Urgent

Continues(i, pc) ==
    /\ i \in TaskIds
    /\ tasks[i].pc = pc
    /\ running = i
    /\ ~loop_blocked

SetPc(i, pc) == [tasks EXCEPT ![i].pc = pc]

OthersInFlight(i) ==
    \E j \in TaskIds : j /= i /\ tasks[j].kind \in {"start", "leave"}

\* The track form after construction and after tr_hide (gui.py 262-264): not
\* shown, tr_src_pl and tr_src_idx None.  The entries keep their text, which
\* nothing reads before tr_show (241-260) replaces it.  `opened` is history:
\* title and url of the track the form was opened for.
NoForm ==
    [shown |-> FALSE, tr_src_pl |-> None, tr_src_idx |-> None,
     tr_url |-> Empty, tr_title |-> Empty, tr_pl |-> Empty, opened |-> << >>]

\* The state after construction, with `file` as the playlists file:
\* PlaylistManager loads it and refresh_playlist_listbox (352-360) selects the
\* first playlist and shows its tracks.
InitFrom(file) ==
    /\ now = 0
    /\ st = DefaultState
    /\ vc = NoVc
    /\ vc_lock = FALSE
    /\ loop_blocked = FALSE
    /\ tasks = << >>
    /\ running = 0
    /\ ytdlp_cache = {}
    /\ disk = file
    /\ playlists = memo_playlist(json_load(file), 1)
    /\ pl_sel = 0
    /\ tv_items = playlists[1].tracks
    /\ tr_sel = -1
    /\ mode = "stop"
    /\ current_track = NoTrack
    /\ fetching = {}
    /\ tr_form = NoForm
    /\ tick_pc = "idle"
    /\ last_op = NoOp
    /\ unpaused = 0
    /\ scope = FALSE
    /\ fired = FALSE

Init == InitFrom(json_dump(InitPlaylists))

\* ----------------------------------------------------------- start_playback
\* ytdlp_info (youtube_utils.py 51-66): a cached url returns without suspending,
\* otherwise the coroutine waits for the executor thread.
StartBegin(i) ==
    /\ Startable(i)
    /\ tasks[i].kind = "start"
    /\ IF tasks[i].track.url \in ytdlp_cache
       THEN /\ tasks' = SetPc(i, "join")
            /\ running' = i
       ELSE /\ tasks' = SetPc(i, "resolving")
            /\ running' = 0
    /\ UNCHANGED << now, st, vc, vc_lock, loop_blocked, ytdlp_cache, gui_vars, last_op, ghost >>

\* youtube_utils.py 66-78: the extraction returned; the info is cached.
ResolveDone(i) ==
    /\ Resumable(i, "resolving")
    /\ ytdlp_cache' = ytdlp_cache \cup {tasks[i].track.url}
    /\ tasks' = SetPc(i, "join")
    /\ running' = i
    /\ UNCHANGED << now, st, vc, vc_lock, loop_blocked, gui_vars, last_op, ghost >>

\* extract_info raised: the exception leaves start_playback at line 136.
ResolveFail(i) ==
    /\ Resumable(i, "resolving")
    /\ tasks' = Finish(i)
    /\ last_op' = Outcome(i, "unresolved")
    /\ UNCHANGED << now, st, bot_vars, gui_vars, ghost >>

\* ensure_join 110-111: a voice client exists and is returned.
JoinReuse(i) ==
    /\ Continues(i, "join")
    /\ vc.connected
    /\ tasks' = [tasks EXCEPT ![i].pc = "lock", ![i].vcref = "live"]
    /\ UNCHANGED << now, st, bot_vars, gui_vars, last_op, ghost >>

\* ensure_join 114-123: a channel is found and ch.connect() is awaited; the
\* new client is in bot.voice_clients from the call on.
JoinConnect(i) ==
    /\ Continues(i, "join")
    /\ ~vc.connected
    /\ vc' = [connected |-> TRUE, state |-> "connecting", src |-> 0]
    /\ tasks' = [tasks EXCEPT ![i].pc = "joining", ![i].vcref = "live"]
    /\ running' = 0
    /\ UNCHANGED << now, st, vc_lock, loop_blocked, ytdlp_cache, gui_vars, last_op, ghost >>

\* An abort that resets the state on its way out.
JoinNoneClears(i) ==
    /\ Continues(i, "join")
    /\ ~vc.connected
    /\ st' = clear(st)
    /\ tasks' = Finish(i)
    /\ last_op' = Outcome(i, "aborted")
    /\ running' = 0
    /\ UNCHANGED << now, vc, vc_lock, loop_blocked, ytdlp_cache, gui_vars, ghost >>

\* ensure_join 125-126 and start_playback 138-139: no channel, None, return.
JoinNone(i) ==
    /\ Continues(i, "join")
    /\ ~vc.connected
    /\ tasks' = Finish(i)
    /\ last_op' = Outcome(i, "aborted")
    /\ running' = 0
    /\ UNCHANGED << now, st, vc, vc_lock, loop_blocked, ytdlp_cache, gui_vars, ghost >>

\* ch.connect() returned the connected client; it raises when the client was
\* disconnected while connecting.
JoinDone(i) ==
    /\ Resumable(i, "joining")
    /\ IF tasks[i].vcref = "live"
       THEN /\ vc' = [vc EXCEPT !.state = "idle"]
            /\ tasks' = SetPc(i, "lock")
            /\ running' = i
            /\ UNCHANGED last_op
       ELSE /\ tasks' = Finish(i)
            /\ last_op' = Outcome(i, "failed")
            /\ UNCHANGED << vc, running >>
    /\ UNCHANGED << now, st, vc_lock, loop_blocked, ytdlp_cache, gui_vars, ghost >>

\* An entry that does not look at the lock.
AcquireUnchecked(i) ==
    /\ Continues(i, "lock")
    /\ vc_lock' = TRUE
    /\ tasks' = SetPc(i, "cs")
    /\ UNCHANGED << now, st, vc, loop_blocked, running, ytdlp_cache, gui_vars, last_op, ghost >>

\* `with vc_lock:` (142).  vc_lock is a threading.Lock: when another coroutine
\* holds it (suspended in its sleep) acquire() blocks the event-loop thread.
Acquire(i) ==
    /\ Continues(i, "lock")
    /\ IF vc_lock
       THEN /\ loop_blocked' = TRUE
            /\ UNCHANGED << vc_lock, tasks, tr_form >>
       ELSE /\ vc_lock' = TRUE
            /\ tasks' = SetPc(i, "cs")
            /\ UNCHANGED loop_blocked
    /\ UNCHANGED << now, st, vc, running, ytdlp_cache, gui_vars, last_op, ghost >>

\* vc.play(PCMVolumeTransformer(FFmpegPCMAudio(info["url"]))) (150-155)
vc_play(v, u) == [v EXCEPT !.state = "playing", !.src = u]

\* 143-155: a playing stream is paused and the coroutine sleeps 0.2 s holding
\* the lock; a paused one is stopped; then the new stream starts.  play()
\* raises on a client that is not connected yet; the with block releases the
\* lock.
Replace(i) ==
    /\ Continues(i, "cs")
    /\ IF vc_is_playing
       THEN /\ vc' = [vc EXCEPT !.state = "paused"]
            /\ tasks' = SetPc(i, "grace")
            /\ running' = 0
            /\ UNCHANGED << vc_lock, last_op >>
       ELSE IF vc.state = "connecting"
       THEN /\ vc_lock' = FALSE
            /\ tasks' = Finish(i)
            /\ last_op' = Outcome(i, "failed")
            /\ running' = 0
            /\ UNCHANGED vc
       ELSE /\ vc' = vc_play(vc, ytdlp_extract(tasks[i].track.url).url)
            /\ tasks' = SetPc(i, "upd_clear")
            /\ vc_lock' = FALSE
            /\ UNCHANGED << running, last_op >>
    /\ UNCHANGED << now, st, loop_blocked, ytdlp_cache, gui_vars, ghost >>

\* 146-155 after the sleep: vc.stop(), vc.play().  play() raises on a client
\* that was disconnected meanwhile; the with block releases the lock.
GraceDone(i) ==
    /\ Resumable(i, "grace")
    /\ vc_lock' = FALSE
    /\ IF tasks[i].vcref = "live"
       THEN /\ vc' = vc_play(vc, ytdlp_extract(tasks[i].track.url).url)
            /\ tasks' = SetPc(i, "upd_clear")
            /\ running' = i
            /\ UNCHANGED last_op
       ELSE /\ tasks' = Finish(i)
            /\ last_op' = Outcome(i, "failed")
            /\ UNCHANGED << vc, running >>
    /\ UNCHANGED << now, st, loop_blocked, ytdlp_cache, gui_vars, ghost >>

\* 158
UpdClear(i) ==
    /\ Continues(i, "upd_clear")
    /\ st' = clear(st)
    /\ tasks' = SetPc(i, "upd_title")
    /\ fired' = FALSE
    /\ UNCHANGED << now, bot_vars, gui_vars, last_op, unpaused, scope >>

\* 159-161
UpdTitle(i) ==
    /\ Continues(i, "upd_title")
    /\ st' = [st EXCEPT !.title = tasks[i].track.title,
                        !.src_url = tasks[i].track.url,
                        !.thumb_url = ThumbUrl(ytdlp_extract(tasks[i].track.url))]
    /\ tasks' = SetPc(i, "upd_time")
    /\ UNCHANGED << now, bot_vars, gui_vars, last_op, ghost >>

\* 162-163
UpdTime(i) ==
    /\ Continues(i, "upd_time")
    /\ st' = [st EXCEPT !.duration = ytdlp_extract(tasks[i].track.url).duration,
                        !.start_time = now]
    /\ tasks' = SetPc(i, "upd_prev")
    /\ UNCHANGED << now, bot_vars, gui_vars, last_op, ghost >>

\* History: the earlier-dispatched start_playback coroutines still pending learn
\* that a later one has completed.
MarkLater(ts, i) ==
    [j \in DOMAIN ts |->
        IF j < i /\ ts[j].kind = "start" THEN [ts[j] EXCEPT !.later = ts[i].track] ELSE ts[j]]

\* 166-167, and the coroutine returns.
UpdPreview(i) ==
    /\ Continues(i, "upd_prev")
    /\ st' = [st EXCEPT !.preview_loaded = None, !.preview_loader_started = "False"]
    /\ tasks' = Remove(MarkLater(tasks, i), i)
    /\ last_op' = Outcome(i, "done")
    /\ running' = 0
    /\ scope' = (~OthersInFlight(i) /\ tick_pc /= "post" /\ st.paused /= "True")
    /\ unpaused' = 0
    /\ UNCHANGED << now, vc, vc_lock, loop_blocked, ytdlp_cache, gui_vars, fired >>

\* ------------------------------------------------------------- pause_toggle
\* A resume that forgets the time spent paused.
resume_unshifted(s, t) == s.start_time

\* 182: start_time += time.time() - pause_at
resume_shift(s, t) == s.start_time + (t - s.pause_at)

\* 172-183 up to the first write to PLAYING_STATE.  Resuming raises TypeError
\* (after vc.resume()) when start_time or pause_at is None.
PauseBegin(i) ==
    /\ Startable(i)
    /\ tasks[i].kind = "pause"
    /\ IF vc_is_playing
       THEN /\ vc' = [vc EXCEPT !.state = "paused"]
            /\ st' = [st EXCEPT !.paused = "True"]
            /\ tasks' = [tasks EXCEPT ![i].pc = "p_at",
                                      ![i].el0 = IF scope THEN elapsed_seconds(st, now) ELSE 0]
            /\ running' = i
            /\ UNCHANGED last_op
       ELSE IF vc_is_paused
       THEN /\ vc' = [vc EXCEPT !.state = "playing"]
            /\ IF st.start_time = None \/ st.pause_at = None
               THEN /\ tasks' = Finish(i)
                    /\ last_op' = Outcome(i, "failed")
                    /\ UNCHANGED << st, running >>
               ELSE /\ st' = [st EXCEPT !.start_time = resume_shift(st, now)]
                    /\ tasks' = [tasks EXCEPT ![i].pc = "p_flag",
                                              ![i].el0 = IF scope THEN elapsed_seconds(st, now) ELSE 0]
                    /\ running' = i
                    /\ UNCHANGED last_op
       ELSE /\ tasks' = Finish(i)
            /\ last_op' = Outcome(i, "noop")
            /\ UNCHANGED << vc, st, running >>
    /\ UNCHANGED << now, vc_lock, loop_blocked, ytdlp_cache, gui_vars, ghost >>

\* A pause that does not record when it happened.
PauseAtUnrecorded(i) ==
    /\ Continues(i, "p_at")
    /\ tasks' = Finish(i)
    /\ last_op' = Outcome(i, "paused")
    /\ running' = 0
    /\ UNCHANGED << now, st, vc, vc_lock, loop_blocked, ytdlp_cache, gui_vars, ghost >>

\* 178
PauseAt(i) ==
    /\ Continues(i, "p_at")
    /\ st' = [st EXCEPT !.pause_at = now]
    /\ tasks' = Finish(i)
    /\ last_op' = Outcome(i, "paused")
    /\ running' = 0
    /\ UNCHANGED << now, vc, vc_lock, loop_blocked, ytdlp_cache, gui_vars, ghost >>

\* 183
PauseFlag(i) ==
    /\ Continues(i, "p_flag")
    /\ st' = [st EXCEPT !.paused = "False"]
    /\ tasks' = Finish(i)
    /\ last_op' = Outcome(i, "resumed")
    /\ running' = 0
    /\ UNCHANGED << now, vc, vc_lock, loop_blocked, ytdlp_cache, gui_vars, ghost >>

\* -------------------------------------------------------------- leave_voice
\* History: the earlier-dispatched start_playback coroutines that have not
\* reached ensure_join yet learn that a leave_voice has disconnected the bot
\* (those that hold the disconnected client are marked by Stale).
MarkLeft(ts, i) ==
    [j \in DOMAIN ts |->
        IF j < i /\ ts[j].kind = "start" /\ ts[j].vcref = "none"
        THEN [ts[j] EXCEPT !.left = TRUE] ELSE ts[j]]

\* 187-188: disconnect() stops the stream and is awaited.
LeaveBegin(i) ==
    /\ Startable(i)
    /\ tasks[i].kind = "leave"
    /\ IF vc.connected
       THEN /\ vc' = IF vc.state = "connecting" THEN vc
                     ELSE [vc EXCEPT !.state = "idle", !.src = 0]
            /\ tasks' = [tasks EXCEPT ![i].pc = "disconnecting", ![i].vcref = "live"]
            /\ UNCHANGED last_op
       ELSE /\ tasks' = Finish(i)
            /\ last_op' = Outcome(i, "noop")
            /\ UNCHANGED vc
    /\ UNCHANGED << now, st, vc_lock, loop_blocked, running, ytdlp_cache, gui_vars, ghost >>

\* The coroutines holding the disconnected client hold a stale one.
Stale(ts) ==
    [j \in DOMAIN ts |->
        IF ts[j].vcref = "live" THEN [ts[j] EXCEPT !.vcref = "stale"] ELSE ts[j]]

\* 188-189: the client is gone from bot.voice_clients; PLAYING_STATE.clear().
LeaveDone(i) ==
    /\ Resumable(i, "disconnecting")
    /\ IF tasks[i].vcref = "live"
       THEN /\ vc' = NoVc
            /\ tasks' = Remove(Stale(MarkLeft(tasks, i)), i)
       ELSE /\ tasks' = Finish(i)
            /\ UNCHANGED vc
    /\ st' = clear(st)
    /\ last_op' = Outcome(i, "done")
    /\ fired' = FALSE
    /\ UNCHANGED << now, vc_lock, loop_blocked, running, ytdlp_cache, gui_vars, unpaused, scope >>

\* The audio source is exhausted: the player thread ends the stream.
StreamEnds ==
    /\ vc_is_playing
    /\ running = 0 \/ loop_blocked
    /\ ~Urgent
    /\ vc' = [vc EXCEPT !.state = "idle", !.src = 0]
    /\ scope' = FALSE
    /\ unpaused' = 0
    /\ UNCHANGED << now, st, vc_lock, loop_blocked, tasks, running, ytdlp_cache,
                    gui_vars, last_op, fired >>

\* The clock advances between the handlers and the synchronous runs.
AdvanceTime ==
    /\ now < MaxTime
    /\ running = 0 \/ loop_blocked
    /\ ~Urgent
    /\ tick_pc /= "post"
    /\ now' = now + 1
    /\ unpaused' = IF scope /\ vc.state /= "paused" THEN unpaused + 1 ELSE unpaused
    /\ UNCHANGED << st, bot_vars, tasks, gui_vars, last_op, scope, fired >>

\* ---------------------------------------------------------------- interface
\* The Tk main loop runs one handler at a time.  A click handler touches only
\* the widgets and the loop's queue, which a coroutine in a synchronous run
\* does not read, so clicks are taken between the synchronous runs.
GuiIdle == tick_pc /= "post" /\ (running = 0 \/ loop_blocked) /\ ~Urgent

\* The user picks a mode radio button.
SetMode(m) ==
    /\ GuiIdle
    /\ m /= mode
    /\ mode' = m
    /\ UNCHANGED << now, st, bot_vars, tasks, gui_lists, current_track, tick_pc,
                    last_op, ghost, fetching, tr_form >>

\* selected_track (419-424) for the selected row i: IndexError when the row is
\* beyond the selected playlist.
selected_track(i) == playlists[pl_sel + 1].tracks[i + 1]

\* A double click on row i of the track list (122): the row is selected and
\* play_selected (426-430) runs.
DoubleClick(i) ==
    /\ GuiIdle
    /\ i \in 0..(Len(tv_items) - 1)
    /\ pl_sel >= 0 /\ i < Len(playlists[pl_sel + 1].tracks)
    /\ CanDispatch
    /\ tr_sel' = i
    /\ current_track' = selected_track(i)
    /\ tasks' = run_async(tasks, "start", selected_track(i))
    /\ scope' = FALSE
    /\ unpaused' = 0
    /\ UNCHANGED << now, st, bot_vars, playlists, disk, pl_sel, tv_items, mode, tick_pc, last_op, fired, fetching, tr_form >>

\* "Pause/Res" button (192)
PauseClick ==
    /\ GuiIdle
    /\ CanDispatch
    /\ tasks' = run_async(tasks, "pause", NoTrack)
    /\ UNCHANGED << now, st, bot_vars, gui_vars, last_op, ghost >>

\* "Leave" button (190)
LeaveClick ==
    /\ GuiIdle
    /\ CanDispatch
    /\ tasks' = run_async(tasks, "leave", NoTrack)
    /\ scope' = FALSE
    /\ unpaused' = 0
    /\ UNCHANGED << now, st, bot_vars, gui_vars, last_op, fired >>

\* The user clicks a playlist: <<ListboxSelect>> runs refresh_tracks (386-397).
SelectPlaylist(k) ==
    /\ GuiIdle
    /\ k \in 0..(Len(playlists) - 1)
    /\ k /= pl_sel
    /\ pl_sel' = k
    /\ playlists' = memo_playlist(playlists, k + 1)
    /\ tv_items' = playlists'[k + 1].tracks
    /\ tr_sel' = -1
    /\ UNCHANGED << now, st, bot_vars, tasks, disk, mode, current_track,
                    tick_pc, last_op, ghost, fetching, tr_form >>

\* ------------------------------------------------------- PlaylistManager
\* What an operation of the manager does: the dict it leaves, whether it
\* called save(), whether it raised.
Result(d, saved, raised) == [data |-> d, saved |-> saved, raised |-> raised]
Ignored(d) == Result(d, FALSE, FALSE)
Saved(d) == Result(d, TRUE, FALSE)
Raised(d) == Result(d, FALSE, TRUE)

\* 0 <= idx < n
in_range(idx, n) == 0 <= idx /\ idx < n

\* s[idx] of a Python list of length n: a negative index counts from the end,
\* an index outside -n..n-1 raises IndexError.
py_valid(idx, n) == -n <= idx /\ idx < n
py_pos(idx, n) == IF idx < 0 THEN idx + n + 1 ELSE idx + 1

\* s[a], s[b] = s[b], s[a]
swap(s, a, b) == [s EXCEPT ![a] = s[b], ![b] = s[a]]

tracks_of(d, k) == d[key_index(d, k)].tracks

\* 62-66
add_playlist(d, name) ==
    IF has_key(d, name) THEN Ignored(d) ELSE Saved(dict_set(d, name, << >>))

\* 68-72: self._data[new] = self._data.pop(old)
rename_playlist(d, old, new) ==
    IF ~has_key(d, old) \/ has_key(d, new) THEN Ignored(d)
    ELSE Saved(dict_set(dict_pop(d, old), new, tracks_of(d, old)))

\* 74-77
delete_playlist(d, name) ==
    IF has_key(d, name) THEN Saved(dict_pop(d, name)) ELSE Ignored(d)

\* 79-86
move_playlist(d, index, delta) ==
    LET new_idx == index + delta
        n == Len(d)
    IN  IF ~in_range(new_idx, n) THEN Ignored(d)
        ELSE IF ~py_valid(index, n) THEN Raised(d)
        ELSE Saved(swap(d, py_pos(index, n), new_idx + 1))

\* 97-99, with _tracks (92-95) raising KeyError for a missing playlist
add_track(d, pl_name, track) ==
    IF ~has_key(d, pl_name) THEN Raised(d)
    ELSE Saved(dict_set(d, pl_name, Append(tracks_of(d, pl_name), track)))

\* 101-105
rename_track(d, pl_name, idx, new_title) ==
    IF ~has_key(d, pl_name) THEN Raised(d)
    ELSE IF in_range(idx, Len(tracks_of(d, pl_name)))
    THEN Saved(dict_set(d, pl_name,
             [tracks_of(d, pl_name) EXCEPT ![idx + 1].title = new_title]))
    ELSE Ignored(d)

\* 107-111
delete_track(d, pl_name, idx) ==
    IF ~has_key(d, pl_name) THEN Raised(d)
    ELSE IF in_range(idx, Len(tracks_of(d, pl_name)))
    THEN Saved(dict_set(d, pl_name, Remove(tracks_of(d, pl_name), idx + 1)))
    ELSE Ignored(d)

\* 113-118
move_track(d, pl_name, idx, delta) ==
    IF ~has_key(d, pl_name) THEN Raised(d)
    ELSE LET tracks == tracks_of(d, pl_name)
             n == Len(tracks)
             new_idx == idx + delta
         IN  IF ~in_range(new_idx, n) THEN Ignored(d)
             ELSE IF ~py_valid(idx, n) THEN Raised(d)
             ELSE Saved(dict_set(d, pl_name, swap(tracks, py_pos(idx, n), new_idx + 1)))

\* pl_move (370-379): move_playlist saves when it moves;
\* refresh_playlist_listbox (352-360) selects row 0 and refreshes the track
\* list for it; the selection is then moved to the new row by selection_set,
\* which raises no <<ListboxSelect>>.
PlMove(delta) ==
    /\ GuiIdle
    /\ pl_sel >= 0
    /\ LET moved == move_playlist(playlists, pl_sel, delta) IN
           /\ disk' = IF moved.saved THEN json_dump(moved.data) ELSE disk
           /\ playlists' = memo_playlist(moved.data, 1)
    /\ tv_items' = playlists'[1].tracks
    /\ tr_sel' = -1
    /\ pl_sel' = Max(0, Min(Len(playlists') - 1, pl_sel + delta))
    /\ UNCHANGED << now, st, bot_vars, tasks, mode, current_track, tick_pc,
                    last_op, ghost, fetching, tr_form >>

\* pl_del (362-368), the question answered with yes: delete_playlist, then
\* refresh_playlist_listbox (352-360), which selects row 0 and refreshes the
\* track list when a playlist is left, and otherwise leaves the list box
\* without selection and the track list as it was.
PlDel ==
    /\ GuiIdle
    /\ pl_sel >= 0
    /\ LET deleted == delete_playlist(playlists, playlists[pl_sel + 1].name) IN
           /\ disk' = IF deleted.saved THEN json_dump(deleted.data) ELSE disk
           /\ IF Len(deleted.data) > 0
              THEN /\ playlists' = memo_playlist(deleted.data, 1)
                   /\ pl_sel' = 0
                   /\ tv_items' = playlists'[1].tracks
                   /\ tr_sel' = -1
              ELSE /\ playlists' = deleted.data
                   /\ pl_sel' = -1
                   /\ UNCHANGED << tv_items, tr_sel >>
    /\ UNCHANGED << now, st, bot_vars, tasks, mode, current_track, tick_pc,
                    last_op, ghost, fetching, tr_form >>

\* tr_del (399-406): delete_track for the selected row of the selected
\* playlist, then save_and_refresh (382-384): the file is written and the
\* track list is rebuilt, without selection.
TrDel ==
    /\ GuiIdle
    /\ pl_sel >= 0 /\ tr_sel >= 0
    /\ LET deleted == delete_track(playlists, playlists[pl_sel + 1].name, tr_sel) IN
           /\ playlists' = memo_playlist(deleted.data, pl_sel + 1)
           /\ disk' = json_dump(deleted.data)
    /\ tv_items' = playlists'[pl_sel + 1].tracks
    /\ tr_sel' = -1
    /\ UNCHANGED << now, st, bot_vars, tasks, pl_sel, mode, current_track, tick_pc,
                    last_op, ghost, fetching, tr_form >>

\* ------------------------------------------------- the manager's boundary
\* An operation of the manager returns: self._data is what it left, the file
\* is rewritten when it called save() (51-54).
Apply(r) ==
    /\ GuiIdle
    /\ playlists' = r.data
    /\ disk' = IF r.saved THEN json_dump(r.data) ELSE disk
    /\ last_op' = [kind |-> "manager",
                   pc |-> IF r.raised THEN "raised" ELSE IF r.saved THEN "saved" ELSE "ignored"]
    /\ UNCHANGED << now, st, bot_vars, tasks, pl_sel, tv_items, tr_sel, mode,
                    current_track, tick_pc, ghost, fetching, tr_form >>

\* The arguments the operations are called with: names of playlists that
\* exist or not, indices inside and outside the lists.
Names == {1, 2}
Indices == -1..MaxTracks
Deltas == {-1, 1}
NewTrack == Track(3, 3)
NewTitle == 5

PmAddPlaylist(name) == Apply(add_playlist(playlists, name))

PmRenamePlaylist(old, new) == Apply(rename_playlist(playlists, old, new))

PmDeletePlaylist(name) == Apply(delete_playlist(playlists, name))

PmMovePlaylist(index, delta) == Apply(move_playlist(playlists, index, delta))

PmAddTrack(name) ==
    /\ has_key(playlists, name) => Len(tracks_of(playlists, name)) < MaxTracks
    /\ Apply(add_track(playlists, name, NewTrack))

PmRenameTrack(name, idx) == Apply(rename_track(playlists, name, idx, NewTitle))

PmDeleteTrack(name, idx) == Apply(delete_track(playlists, name, idx))

PmMoveTrack(name, idx, delta) == Apply(move_track(playlists, name, idx, delta))

\* PlaylistManager.load (36-49): self._data becomes what the file holds.
load(doc) == Result(json_load(doc), FALSE, FALSE)

PmLoad == Apply(load(disk))

\* ------------------------------------------------------------ track form
\* The user clicks row i of the track list.
TreeSelect(i) ==
    /\ GuiIdle
    /\ i \in 0..(Len(tv_items) - 1)
    /\ i /= tr_sel
    /\ tr_sel' = i
    /\ UNCHANGED << now, st, bot_vars, tasks, playlists, disk, pl_sel, tv_items, mode,
                    current_track, tick_pc, last_op, ghost, fetching, tr_form >>

\* tr_form_edit (278-285) with a playlist and a row selected: the form is
\* shown for the track at that row of that playlist (IndexError, and no form,
\* when the playlist has no such row), tr_src_pl and tr_src_idx remember the
\* name and the row.
TrFormEdit ==
    /\ GuiIdle
    /\ pl_sel >= 0 /\ tr_sel >= 0
    /\ in_range(tr_sel, Len(playlists[pl_sel + 1].tracks))
    /\ LET pl == playlists[pl_sel + 1].name
           tr == selected_track(tr_sel)
       IN  tr_form' = [shown |-> TRUE, tr_src_pl |-> pl, tr_src_idx |-> tr_sel,
                       tr_url |-> tr.url, tr_title |-> tr.title, tr_pl |-> pl,
                       opened |-> << tr.title, tr.url >>]
    /\ UNCHANGED << now, st, bot_vars, tasks, gui_lists, mode, current_track,
                    tick_pc, last_op, ghost, fetching >>

\* The user types a title into the form's entry (206-207).
TrType ==
    /\ GuiIdle
    /\ tr_form.shown
    /\ tr_form.tr_title /= NewTitle
    /\ tr_form' = [tr_form EXCEPT !.tr_title = NewTitle]
    /\ UNCHANGED << now, st, bot_vars, tasks, gui_lists, mode, current_track,
                    tick_pc, last_op, ghost, fetching >>

\* The user picks a playlist in the form's combobox (210), whose values are
\* the playlists (257, 360).
TrPick(name) ==
    /\ GuiIdle
    /\ tr_form.shown
    /\ has_key(playlists, name)
    /\ name /= tr_form.tr_pl
    /\ tr_form' = [tr_form EXCEPT !.tr_pl = name]
    /\ UNCHANGED << now, st, bot_vars, tasks, gui_lists, mode, current_track,
                    tick_pc, last_op, ghost, fetching >>

\* "Cancel" (214): tr_hide (262-264)
TrCancel ==
    /\ GuiIdle
    /\ tr_form.shown
    /\ tr_form' = NoForm
    /\ UNCHANGED << now, st, bot_vars, tasks, gui_lists, mode, current_track,
                    tick_pc, last_op, ghost, fetching >>

\* save_and_refresh (382-384) on the dict d: the file is written, and
\* refresh_tracks (386-397) rebuilds the track list, without selection, when
\* a playlist is selected.
save_and_refresh(d) ==
    /\ disk' = json_dump(d)
    /\ IF pl_sel >= 0
       THEN /\ playlists' = memo_playlist(d, pl_sel + 1)
            /\ tv_items' = playlists'[pl_sel + 1].tracks
            /\ tr_sel' = -1
       ELSE /\ playlists' = d
            /\ UNCHANGED << tv_items, tr_sel >>

\* tr_save (287-308) in edit mode.  The track is read at row tr_src_idx of
\* playlist tr_src_pl (302): KeyError or IndexError when there is none, and
\* nothing is changed.  Title and url are written into it (303).  With another
\* playlist picked, delete_track removes row tr_src_idx from tr_src_pl and
\* saves, and add_track appends the track to the picked playlist, raising
\* KeyError when that playlist is gone: the handler ends there, before
\* save_and_refresh and tr_hide.
TrSave ==
    /\ GuiIdle
    /\ tr_form.shown
    /\ LET src == tr_form.tr_src_pl
           idx == tr_form.tr_src_idx
           dest == tr_form.tr_pl
       IN  IF ~has_key(playlists, src) \/ ~in_range(idx, Len(tracks_of(playlists, src)))
           THEN UNCHANGED << gui_lists, tr_form >>
           ELSE LET tr == [tracks_of(playlists, src)[idx + 1] EXCEPT
                              !.title = tr_form.tr_title, !.url = tr_form.tr_url]
                    written == dict_set(playlists, src,
                                   [tracks_of(playlists, src) EXCEPT ![idx + 1] = tr])
                    deleted == delete_track(written, src, idx)
                    added == add_track(deleted.data, dest, tr)
                IN  IF dest = src
                    THEN /\ save_and_refresh(written)
                         /\ tr_form' = NoForm
                    ELSE IF added.raised
                    THEN /\ playlists' = deleted.data
                         /\ disk' = json_dump(deleted.data)
                         /\ UNCHANGED << tv_items, tr_sel, tr_form >>
                    ELSE /\ save_and_refresh(added.data)
                         /\ tr_form' = NoForm
    /\ UNCHANGED << now, st, bot_vars, tasks, pl_sel, mode, current_track,
                    tick_pc, last_op, ghost, fetching >>

\* tr_move (408-416): move_track for the selected row of the selected
\* playlist (an exception ends the handler), save_and_refresh, and the row
\* the track went to is selected.
TrMove(delta) ==
    /\ GuiIdle
    /\ pl_sel >= 0 /\ tr_sel >= 0
    /\ LET moved == move_track(playlists, playlists[pl_sel + 1].name, tr_sel, delta)
           row == Max(0, Min(Len(playlists[pl_sel + 1].tracks) - 1, tr_sel + delta))
       IN  IF moved.raised
           THEN UNCHANGED gui_lists
           ELSE /\ playlists' = memo_playlist(moved.data, pl_sel + 1)
                /\ disk' = json_dump(moved.data)
                /\ tv_items' = playlists'[pl_sel + 1].tracks
                /\ tr_sel' = IF row < Len(tv_items') THEN row ELSE -1
    /\ UNCHANGED << now, st, bot_vars, tasks, pl_sel, mode, current_track,
                    tick_pc, last_op, ghost, fetching, tr_form >>

\* --------------------------------------------------------------------- tick
\* 481-485: elapsed_seconds raises on None operands, fmt(dur) on a None duration.
tick_raises(s) ==
    is_playing(s) /\ (elapsed_raises(s) \/ s.duration = None)

\* An end-of-track test that does not look at the paused flag.
end_of_track_paused(s, t) ==
    /\ is_playing(s)
    /\ ~tick_raises(s)
    /\ s.duration > 0
    /\ Max(0, elapsed_seconds(s, t)) >= s.duration

\* 487
end_of_track(s, t) ==
    /\ is_playing(s)
    /\ ~tick_raises(s)
    /\ s.duration > 0
    /\ Max(0, elapsed_seconds(s, t)) >= s.duration
    /\ s.paused /= "True"

\* 492-496: the preview is shown, or preview_loader_started is set and a
\* loader thread is started.
wants_loader(s) == ~Truthy(s.preview_loaded) /\ s.preview_loader_started /= "True"
preview_step(s) ==
    IF wants_loader(s) THEN [s EXCEPT !.preview_loader_started = "True"] ELSE s

\* _load_preview (514-520): the thread tick starts fetches the thumbnail when
\* PLAYING_STATE has one.
starts_fetch(s) == wants_loader(s) /\ Truthy(s.thumb_url)

\* threading.Thread(target=self._load_preview).start() (496); a thread that
\* finds no thumb_url returns at once (516-517).
spawn(s, f) == IF starts_fetch(s) THEN f \cup {s.thumb_url} ELSE f

\* 520-525: the request has answered; the image of thumbnail u is stored.
LoadDone(u) ==
    /\ u \in fetching
    /\ running = 0 \/ loop_blocked
    /\ ~Urgent
    /\ st' = [st EXCEPT !.preview_loaded = u]
    /\ fetching' = fetching \ {u}
    /\ UNCHANGED << now, bot_vars, tasks, gui_lists, mode, current_track, tick_pc,
                    last_op, ghost, tr_form >>

\* 529-530: the request failed; the exception is logged.
LoadFail(u) ==
    /\ u \in fetching
    /\ running = 0 \/ loop_blocked
    /\ ~Urgent
    /\ fetching' = fetching \ {u}
    /\ UNCHANGED << now, st, bot_vars, tasks, gui_lists, mode, current_track, tick_pc,
                    last_op, ghost, tr_form >>

\* The timer fires (after(500, tick)).
TickDue == tick_pc = "idle" /\ ~Urgent

\* A tick that finds nothing finished (476-503 without 488-490).
TickShow ==
    /\ TickDue
    /\ ~tick_raises(st)
    /\ ~end_of_track(st, now)
    /\ is_playing(st) /\ wants_loader(st)
    /\ st' = preview_step(st)
    /\ fetching' = spawn(st, fetching)
    /\ UNCHANGED << now, bot_vars, tasks, gui_lists, mode, current_track, tick_pc,
                    last_op, ghost, tr_form >>

\* The tick raises before line 503: the timer is never scheduled again.
TickCrash ==
    /\ TickDue
    /\ tick_raises(st)
    /\ tick_pc' = "dead"
    /\ UNCHANGED << now, st, bot_vars, tasks, gui_lists, mode, current_track,
                    last_op, ghost, fetching, tr_form >>

\* on_track_end, mode loop (441-442)
TickEndLoop ==
    /\ TickDue
    /\ end_of_track(st, now)
    /\ mode = "loop" /\ current_track /= NoTrack
    /\ CanDispatch
    /\ tasks' = run_async(tasks, "start", current_track)
    /\ tick_pc' = "post"
    /\ scope' = FALSE
    /\ unpaused' = 0
    /\ fired' = TRUE
    /\ UNCHANGED << now, st, bot_vars, gui_lists, mode, current_track, last_op, fetching, tr_form >>

\* 450
next_index(cur, n) == (cur + 1) % n

\* The selection and play_selected part shared by next and random (451-453,
\* 461-463): tr_tv.selection_set raises TclError for a row the tree does not have.
SelectAndPlay(idx) ==
    IF idx >= Len(tv_items)
    THEN /\ tick_pc' = "dead"
         /\ UNCHANGED << tr_sel, current_track, tasks, tr_form >>
    ELSE /\ tr_sel' = idx
         /\ current_track' = selected_track(idx)
         /\ tasks' = run_async(tasks, "start", selected_track(idx))
         /\ tick_pc' = "post"

HasTracks == pl_sel >= 0 /\ Len(playlists[pl_sel + 1].tracks) > 0

\* An end of track that forgets the current track when it finds nothing to play.
TickEndNextForgets ==
    /\ TickDue
    /\ end_of_track(st, now)
    /\ mode = "next"
    /\ CanDispatch
    /\ IF HasTracks
       THEN SelectAndPlay(next_index(tr_sel, Len(playlists[pl_sel + 1].tracks)))
       ELSE /\ tick_pc' = "post"
            /\ current_track' = NoTrack
            /\ UNCHANGED << tr_sel, tasks, tr_form >>
    /\ scope' = FALSE
    /\ unpaused' = 0
    /\ fired' = TRUE
    /\ UNCHANGED << now, st, bot_vars, playlists, disk, pl_sel, tv_items, mode, last_op, fetching, tr_form >>

\* on_track_end, mode next (443-453)
TickEndNext ==
    /\ TickDue
    /\ end_of_track(st, now)
    /\ mode = "next"
    /\ CanDispatch
    /\ IF HasTracks
       THEN SelectAndPlay(next_index(tr_sel, Len(playlists[pl_sel + 1].tracks)))
       ELSE /\ tick_pc' = "post"
            /\ UNCHANGED << tr_sel, current_track, tasks, tr_form >>
    /\ scope' = FALSE
    /\ unpaused' = 0
    /\ fired' = TRUE
    /\ UNCHANGED << now, st, bot_vars, playlists, disk, pl_sel, tv_items, mode, last_op, fetching, tr_form >>

\* random.randrange(len(tracks)) (460)
randrange(n) == 0..(n - 1)

\* on_track_end, mode random (454-463)
TickEndRandom ==
    /\ TickDue
    /\ end_of_track(st, now)
    /\ mode = "random"
    /\ CanDispatch
    /\ IF HasTracks
       THEN \E idx \in randrange(Len(playlists[pl_sel + 1].tracks)) : SelectAndPlay(idx)
       ELSE /\ tick_pc' = "post"
            /\ UNCHANGED << tr_sel, current_track, tasks, tr_form >>
    /\ scope' = FALSE
    /\ unpaused' = 0
    /\ fired' = TRUE
    /\ UNCHANGED << now, st, bot_vars, playlists, disk, pl_sel, tv_items, mode, last_op, fetching, tr_form >>

\* _halt (467-469) reads BOT_LOOP.voice_clients; an event loop has no such
\* attribute, so the coroutine raises AttributeError before it reaches the
\* voice client: what it does to the stream is nothing.
halt(v) == v

\* An end of track that forgets to reset the interface's current track.
TickEndStopKeeps ==
    /\ TickDue
    /\ end_of_track(st, now)
    /\ mode = "stop" \/ (mode = "loop" /\ current_track = NoTrack)
    /\ vc' = halt(vc)
    /\ st' = clear(st)
    /\ tick_pc' = "post"
    /\ scope' = FALSE
    /\ unpaused' = 0
    /\ fired' = FALSE
    /\ UNCHANGED << now, vc_lock, loop_blocked, running, ytdlp_cache, tasks,
                    gui_lists, mode, current_track, last_op, fetching, tr_form >>

\* on_track_end, the else branch (464-473): mode stop, and mode loop without a
\* current track.
TickEndStop ==
    /\ TickDue
    /\ end_of_track(st, now)
    /\ mode = "stop" \/ (mode = "loop" /\ current_track = NoTrack)
    /\ vc' = halt(vc)
    /\ st' = clear(st)
    /\ current_track' = NoTrack
    /\ tick_pc' = "post"
    /\ scope' = FALSE
    /\ unpaused' = 0
    /\ fired' = FALSE
    /\ UNCHANGED << now, vc_lock, loop_blocked, running, ytdlp_cache, tasks,
                    gui_lists, mode, last_op, fetching, tr_form >>

\* A debounce that restarts the track's clock instead of marking a pause.
TickPostRestarts ==
    /\ tick_pc = "post"
    /\ st' = preview_step([st EXCEPT !.paused = "True", !.start_time = now])
    /\ fetching' = spawn(st, fetching)
    /\ tick_pc' = "idle"
    /\ UNCHANGED << now, bot_vars, tasks, gui_lists, mode, current_track, last_op, ghost, tr_form >>

\* 489-503: the debounce mark, the preview step, and the next tick is scheduled.
TickPost ==
    /\ tick_pc = "post"
    /\ st' = preview_step([st EXCEPT !.paused = "True", !.pause_at = now])
    /\ fetching' = spawn(st, fetching)
    /\ tick_pc' = "idle"
    /\ UNCHANGED << now, bot_vars, tasks, gui_lists, mode, current_track, last_op, ghost, tr_form >>

\* ------------------------------------------------------------ specifications
Coroutines ==
    \E i \in Slots :
        \/ StartBegin(i) \/ ResolveDone(i) \/ ResolveFail(i)
        \/ JoinReuse(i) \/ JoinConnect(i) \/ JoinNone(i) \/ JoinDone(i)
        \/ Acquire(i) \/ Replace(i) \/ GraceDone(i)
        \/ UpdClear(i) \/ UpdTitle(i) \/ UpdTime(i) \/ UpdPreview(i)

Controls ==
    \E i \in Slots :
        \/ PauseBegin(i) \/ PauseAt(i) \/ PauseFlag(i)
        \/ LeaveBegin(i) \/ LeaveDone(i)

\* The controller: one track played, paused, resumed and left, with the timer
\* in the modes stop and loop.
Next ==
    \/ Coroutines
    \/ Controls
    \/ TickShow \/ TickCrash \/ TickEndLoop \/ TickEndStop \/ TickPost
    \/ StreamEnds
    \/ AdvanceTime
    \/ DoubleClick(0) \/ PauseClick \/ LeaveClick
    \/ \E m \in {"stop", "loop"} : SetMode(m)

Spec == Init /\ [][Next]_vars

\* Overlapping requests: the two tracks of the first playlist are played one
\* over the other.
NextRace ==
    \/ Coroutines
    \/ StreamEnds
    \/ AdvanceTime
    \/ \E i \in 0..1 : DoubleClick(i)

SpecRace == Init /\ [][NextRace]_vars

\* Leaving amid requests: the two tracks are requested one over the other and
\* the voice channel is left.
NextLeave ==
    \/ NextRace
    \/ LeaveClick
    \/ \E i \in Slots : LeaveBegin(i) \/ LeaveDone(i)

SpecLeave == Init /\ [][NextLeave]_vars

\* The event loop runs every coroutine that is ready: a queued one is started,
\* a suspended one is resumed once what it awaits is done.
SpecRaceLive == SpecRace /\ WF_vars(Coroutines)

\* A track is played once the previous request has left the loop.
PlayWhenIdle(i) == tasks = << >> /\ DoubleClick(i)

\* The lists: tracks are played while the playlists are selected and moved,
\* with the timer in the modes next and random.
NextGui ==
    \/ Coroutines
    \/ StreamEnds
    \/ TickShow \/ TickCrash \/ TickEndNext \/ TickEndRandom \/ TickEndStop \/ TickPost
    \/ AdvanceTime
    \/ \E i \in 0..1 : PlayWhenIdle(i)
    \/ \E k \in 0..1 : SelectPlaylist(k)
    \/ \E d \in {-1, 1} : PlMove(d)
    \/ \E m \in {"next", "random"} : SetMode(m)

SpecGui == Init /\ [][NextGui]_vars

\* Deletions: tracks are played while playlists and tracks are deleted, with
\* the timer in the modes next and random.
NextDel ==
    \/ Coroutines
    \/ StreamEnds
    \/ TickShow \/ TickCrash \/ TickEndNext \/ TickEndRandom \/ TickEndStop \/ TickPost
    \/ AdvanceTime
    \/ \E i \in 0..1 : PlayWhenIdle(i)
    \/ PlDel \/ TrDel
    \/ \E m \in {"next", "random"} : SetMode(m)

SpecDel == Init /\ [][NextDel]_vars

\* Replay: the two tracks of the first playlist are played one after the other,
\* with the timer in the modes stop and loop.
NextLoop ==
    \/ Coroutines
    \/ StreamEnds
    \/ TickShow \/ TickCrash \/ TickEndLoop \/ TickEndStop \/ TickPost
    \/ AdvanceTime
    \/ \E i \in 0..1 : PlayWhenIdle(i)
    \/ \E m \in {"stop", "loop"} : SetMode(m)

SpecLoop == Init /\ [][NextLoop]_vars

\* The previews: the two tracks are played one after the other while the
\* thumbnail requests the timer starts answer or fail.
NextPreview ==
    \/ NextLoop
    \/ \E u \in {1, 2} : LoadDone(u) \/ LoadFail(u)

SpecPreview == Init /\ [][NextPreview]_vars

\* The ends of tracks: the two tracks of the first playlist, one of known and
\* one of unknown duration, are played, paused and resumed with the timer in
\* the modes stop and loop.
NextEnds ==
    \/ NextLoop
    \/ PauseClick
    \/ \E i \in Slots : PauseBegin(i) \/ PauseAt(i) \/ PauseFlag(i)

SpecEnds == Init /\ [][NextEnds]_vars

\* A playlists file whose tracks do not all carry a vid.
StoredPlaylists == << Playlist(2, <<T1, Track(2, 3)>>), Playlist(1, <<Track(3, 1)>>) >>

InitStore == InitFrom(json_dump(StoredPlaylists))

\* The playlists: the manager's operations with every kind of argument, and
\* the file loaded again.
NextStore ==
    \/ \E name \in Names : PmAddPlaylist(name)
    \/ \E old, new \in Names : PmRenamePlaylist(old, new)
    \/ \E name \in Names : PmDeletePlaylist(name)
    \/ \E index \in Indices, delta \in Deltas : PmMovePlaylist(index, delta)
    \/ \E name \in Names : PmAddTrack(name)
    \/ \E name \in Names, idx \in Indices : PmRenameTrack(name, idx)
    \/ \E name \in Names, idx \in Indices : PmDeleteTrack(name, idx)
    \/ \E name \in Names, idx \in Indices, delta \in Deltas : PmMoveTrack(name, idx, delta)
    \/ PmLoad

SpecStore == InitStore /\ [][NextStore]_vars

\* The lists over that file: playlists are selected and moved and their
\* tracks played.
NextLists ==
    \/ Coroutines
    \/ StreamEnds
    \/ AdvanceTime
    \/ \E i \in 0..1 : PlayWhenIdle(i)
    \/ \E k \in 0..1 : SelectPlaylist(k)
    \/ \E d \in {-1, 1} : PlMove(d)

SpecLists == InitStore /\ [][NextLists]_vars

\* The order of the playlists: three names, so that a playlist can be given a
\* name no playlist has while another playlist stands beside it.
OrderNames == {1, 2, 3}
OrderIndices == -1..3

NextOrder ==
    \/ \E name \in OrderNames : PmAddPlaylist(name)
    \/ \E old, new \in OrderNames : PmRenamePlaylist(old, new)
    \/ \E name \in OrderNames : PmDeletePlaylist(name)
    \/ \E index \in OrderIndices, delta \in Deltas : PmMovePlaylist(index, delta)
    \/ \E name \in OrderNames, idx \in Indices, delta \in Deltas : PmMoveTrack(name, idx, delta)

SpecOrder == InitStore /\ [][NextOrder]_vars


\* The track form on one playlist: rows are selected, the form is opened,
\* filled and saved or cancelled, and meanwhile tracks are deleted and moved.
NextForm ==
    \/ \E i \in 0..MaxTracks : TreeSelect(i)
    \/ TrFormEdit
    \/ TrType
    \/ TrCancel
    \/ TrSave
    \/ TrDel
    \/ \E d \in Deltas : TrMove(d)

SpecForm == Init /\ [][NextForm]_vars

\* The track form between playlists: another playlist is picked in the form,
\* and meanwhile playlists are selected and deleted.
NextFormMove ==
    \/ \E i \in 0..MaxTracks : TreeSelect(i)
    \/ \E k \in 0..1 : SelectPlaylist(k)
    \/ TrFormEdit
    \/ \E name \in Names : TrPick(name)
    \/ TrCancel
    \/ TrSave
    \/ PlDel

SpecFormMove == Init /\ [][NextFormMove]_vars

\* ------------------------------------------------------------------- claims
\* C1: while only pause_toggle runs on a playing track, elapsed_seconds never
\* decreases between the calls, a pause and a resume leave it at the value it
\* had when the call began, and a resume moves start_time forward by exactly
\* now - pause_at.
C1_ElapsedContinuous ==
    [][(scope /\ scope') =>
        /\ (running = 0 /\ running' = 0) =>
               elapsed_seconds(st', now') >= elapsed_seconds(st, now)
        /\ \A i \in Slots :
               /\ (PauseAt(i) \/ PauseFlag(i)) =>
                      elapsed_seconds(st', now') = tasks[i].el0
               /\ (PauseBegin(i) /\ vc_is_paused) =>
                      st'.start_time = st.start_time + (now - st.pause_at)
      ]_vars

\* A resume has completed after the track had been paused for some time.
C1_Witness ==
    /\ scope
    /\ last_op = [kind |-> "pause", pc |-> "resumed"]
    /\ st.start_time > st.pause_at

\* C2: on a playing stream pause_toggle pauses (paused True, pause_at now), on
\* a paused one it resumes (paused False), it always changes the stream, and
\* between the calls elapsed_seconds is the time the stream spent not paused.
C2_StrictToggle ==
    [][scope =>
        /\ \A i \in Slots :
               /\ PauseAt(i) =>
                      vc'.state = "paused" /\ st'.paused = "True" /\ st'.pause_at = now
               /\ PauseFlag(i) =>
                      vc'.state = "playing" /\ st'.paused = "False"
               /\ PauseBegin(i) => vc'.state /= vc.state
        /\ (scope' /\ running' = 0) => elapsed_seconds(st', now') = unpaused'
      ]_vars

\* Played, paused, resumed later: the time spent paused is not in elapsed_seconds.
C2_Witness ==
    /\ scope
    /\ running = 0
    /\ last_op = [kind |-> "pause", pc |-> "resumed"]
    /\ vc_is_playing
    /\ unpaused >= 1
    /\ elapsed_seconds(st, now) = unpaused
    /\ st.start_time > st.pause_at

\* C3: when start_playback(T) completes, PLAYING_STATE holds T's title and
\* url, the thumbnail and duration of T's metadata, start_time now, a paused
\* flag that is not set (False, or the None clear() leaves), and nothing of
\* the preview.
C3_StartResets ==
    [][\A i \in Slots : UpdPreview(i) =>
        /\ st'.title = tasks[i].track.title
        /\ st'.src_url = tasks[i].track.url
        /\ st'.thumb_url = ThumbUrl(ytdlp_extract(tasks[i].track.url))
        /\ st'.duration = ytdlp_extract(tasks[i].track.url).duration
        /\ st'.start_time = now
        /\ st'.paused /= "True"
        /\ st'.preview_loaded = None
        /\ st'.preview_loader_started = "False"
      ]_vars

\* The steps of a start_playback up to its abort: it begins, the track
\* resolves or not, no voice connection is found.
AbortPath(i) ==
    /\ i \in TaskIds
    /\ tasks[i].kind = "start"
    /\ tasks[i].pc \in {"queued", "resolving", "join"}
    /\ \/ tasks' = Finish(i)
       \/ /\ Len(tasks') = Len(tasks)
          /\ tasks'[i].pc \in {"resolving", "join"}
          /\ tasks'[i].pc /= tasks[i].pc

\* C4: a start_playback that cannot resolve its track or finds no voice
\* connection writes no field of PLAYING_STATE and leaves the stream alone, in
\* the abort and in every step before it.
C4_AbortLeavesState ==
    [][\A i \in Slots : AbortPath(i) => (st' = st /\ vc' = vc)]_vars

\* The track of a start_playback did not resolve while another one was playing.
C4_Witness ==
    /\ last_op = [kind |-> "start", pc |-> "unresolved"]
    /\ is_playing(st)
    /\ vc_is_playing

\* The start_playback coroutines inside `with vc_lock:`.
InReplace == {i \in TaskIds : tasks[i].kind = "start" /\ tasks[i].pc \in {"cs", "grace"}}

\* C5: at most one start_playback is inside the stream-replace critical section.
C5_MutualExclusion == Cardinality(InReplace) <= 1

\* One start_playback sleeps inside the section while another is at its entry.
C5_Witness ==
    \E i, j \in TaskIds :
        /\ tasks[i].pc = "grace"
        /\ tasks[j].pc = "lock"
        /\ loop_blocked

\* C6: while a start_playback is inside the stream-replace critical section,
\* pause_toggle and leave_voice change neither the stream nor PLAYING_STATE.
C6_Serialized ==
    [][\A i \in Slots :
        (PauseBegin(i) \/ PauseAt(i) \/ PauseFlag(i) \/ LeaveBegin(i) \/ LeaveDone(i)) =>
            (InReplace /= {} => (st' = st /\ vc' = vc))
      ]_vars

\* What the timer reads is of one transition: a title comes with its duration
\* and start_time, a paused flag with its pause_at.
Coherent(s) ==
    is_playing(s) =>
        /\ s.duration /= None
        /\ s.start_time /= None
        /\ s.paused = "True" => s.pause_at /= None

\* C7: every tick reads a PLAYING_STATE that is of one transition.
C7_TickAtomic ==
    [][(TickShow \/ TickCrash \/ TickEndLoop \/ TickEndNext \/ TickEndRandom \/ TickEndStop)
        => Coherent(st)]_vars

\* C8: when a start_playback completes after one that was requested later has
\* completed, and no later request is pending, PLAYING_STATE and the stream
\* describe the later request.
C8_Supersedes ==
    [][\A i \in Slots :
        (/\ UpdPreview(i)
         /\ tasks[i].later /= NoTrack
         /\ \A j \in TaskIds : j > i => tasks[j].kind /= "start")
        => /\ st'.title = tasks[i].later.title
           /\ st'.src_url = tasks[i].later.url
           /\ vc'.src = ytdlp_extract(tasks[i].later.url).url
      ]_vars

\* C9: at the end of a track in mode next, with a non-empty playlist of n
\* tracks selected and row i selected (-1: none), row (i + 1) mod n becomes
\* selected, current_track becomes that track of the playlist and
\* start_playback is dispatched for it.
C9_NextWraps ==
    [][(TickEndNext /\ HasTracks) =>
        LET tracks == playlists[pl_sel + 1].tracks
            nxt == (tr_sel + 1) % Len(tracks)
        IN  /\ tr_sel' = nxt
            /\ current_track' = tracks[nxt + 1]
            /\ tasks' = Append(tasks, Task("start", tracks[nxt + 1]))
      ]_vars

\* C10: at the end of a track in mode random, with a non-empty playlist of n
\* tracks selected, a row in 0..n-1 becomes selected (row 0 when n = 1),
\* current_track becomes that track of the playlist and start_playback is
\* dispatched for it.
C10_RandomInRange ==
    [][(TickEndRandom /\ HasTracks) =>
        LET tracks == playlists[pl_sel + 1].tracks
        IN  /\ tr_sel' \in 0..(Len(tracks) - 1)
            /\ Len(tracks) = 1 => tr_sel' = 0
            /\ current_track' = tracks[tr_sel' + 1]
            /\ tasks' = Append(tasks, Task("start", tracks[tr_sel' + 1]))
      ]_vars

\* C11: at the end of a track in mode loop, start_playback is dispatched for
\* the track that just finished: the one whose title and url PLAYING_STATE holds.
C11_LoopSameTrack ==
    [][TickEndLoop =>
        /\ Len(tasks') = Len(tasks) + 1
        /\ tasks'[Len(tasks')].kind = "start"
        /\ tasks'[Len(tasks')].track.title = st.title
        /\ tasks'[Len(tasks')].track.url = st.src_url
      ]_vars

\* C12: the end of a track in mode stop leaves is_playing false and the
\* interface's current track None.
C12_StopClears ==
    [][(TickEndStop /\ mode = "stop") =>
        (~is_playing(st') /\ current_track' = NoTrack)]_vars

\* on_track_end has just run in mode stop for a track that had been played.
C12_Witness ==
    /\ tick_pc = "post"
    /\ mode = "stop"
    /\ last_op = [kind |-> "start", pc |-> "done"]
    /\ ~is_playing(st)
    /\ current_track = NoTrack
    /\ vc.connected

\* C13: the end of a track in mode stop stops the stream of the voice client
\* and leaves the client connected.
C13_StopHalts ==
    [][(TickEndStop /\ mode = "stop") =>
        /\ vc'.connected = vc.connected
        /\ ~(vc'.connected /\ vc'.state = "playing")
      ]_vars

\* A fully reset PLAYING_STATE: every field holds its default, or the None
\* that clear() leaves in its place.
Blank(s) ==
    /\ s.title \in {Empty, None}
    /\ s.src_url \in {Empty, None}
    /\ s.thumb_url \in {Empty, None}
    /\ s.duration \in {0, None}
    /\ s.start_time \in {0, None}
    /\ s.paused \in {"False", "None"}
    /\ s.pause_at \in {0, None}
    /\ s.preview_loaded = None
    /\ s.preview_loader_started \in {"False", "None"}

\* C14: when leave_voice completes, with or without a voice connection at its
\* call, there is no voice connection and PLAYING_STATE is fully reset.
C14_LeaveResets ==
    [][\A i \in Slots :
        (LeaveDone(i) \/ (LeaveBegin(i) /\ ~vc.connected)) =>
            (~vc'.connected /\ Blank(st'))
      ]_vars

\* C15: every tick ends by scheduling the next one: the timer is always either
\* scheduled or inside a tick that will schedule it.
C15_TimerAlive == tick_pc \in {"idle", "post"}

\* The steps of the timer: tick, with on_track_end.
TimerStep ==
    \/ TickShow \/ TickCrash \/ TickPost
    \/ TickEndLoop \/ TickEndNext \/ TickEndRandom \/ TickEndStop

\* What PLAYING_STATE says of the track.
TrackFields(s) == << s.title, s.src_url, s.thumb_url, s.duration, s.start_time >>

\* C16: the timer starts one thumbnail fetch for one population of
\* PLAYING_STATE: a tick that starts a fetch sets preview_loader_started, and
\* while PLAYING_STATE describes the same track the flag stays set, so that no
\* later tick starts a second fetch, however the ticks fall between the
\* statements of start_playback.
C16_OneFetch ==
    [][/\ ((TickShow \/ TickPost) /\ starts_fetch(st)) => st'.preview_loader_started = "True"
       /\ (/\ st.preview_loader_started = "True"
           /\ Truthy(st.thumb_url)
           /\ TrackFields(st') = TrackFields(st)) => st'.preview_loader_started = "True"
      ]_vars

C17_RoundTrip ==
    /\ json_load(json_dump(playlists)) = playlists
    /\ last_op = [kind |-> "manager", pc |-> "saved"] => load(disk).data = playlists

\* A save of two playlists that are not in the order of their names, with a
\* track that has no vid and one whose vid is None.
C17_Witness ==
    /\ last_op = [kind |-> "manager", pc |-> "saved"]
    /\ disk = json_dump(playlists)
    /\ Len(playlists) = 2
    /\ playlists[1].name > playlists[2].name
    /\ \E i \in DOMAIN playlists : \E j \in DOMAIN playlists[i].tracks :
           "vid" \notin DOMAIN playlists[i].tracks[j]
    /\ \E i \in DOMAIN playlists : \E j \in DOMAIN playlists[i].tracks :
           LET tr == playlists[i].tracks[j] IN "vid" \in DOMAIN tr /\ tr.vid = None

\* C18: when an operation of the user has changed the playlists in memory,
\* the file holds them as they are in memory.
C18_Persisted ==
    [][playlists' /= playlists => json_load(disk') = playlists']_vars

\* The operation of the manager neither raised nor changed the playlists nor
\* wrote the file.
Quiet ==
    /\ last_op'.pc = "ignored"
    /\ playlists' = playlists
    /\ disk' = disk

\* C19: an operation of the manager called with the name of a playlist that
\* does not exist, or with an index outside the list, is ignored: it raises
\* nothing and changes neither the playlists nor the file.
C19_MissingIgnored ==
    [][\A name \in Names, idx \in Indices :
        /\ ~has_key(playlists, name) =>
               /\ PmAddTrack(name) => Quiet
               /\ PmRenameTrack(name, idx) => Quiet
               /\ PmDeleteTrack(name, idx) => Quiet
               /\ PmDeletePlaylist(name) => Quiet
               /\ \A delta \in Deltas : PmMoveTrack(name, idx, delta) => Quiet
               /\ \A new \in Names : PmRenamePlaylist(name, new) => Quiet
        /\ (has_key(playlists, name) /\ ~in_range(idx, Len(tracks_of(playlists, name)))) =>
               /\ PmRenameTrack(name, idx) => Quiet
               /\ PmDeleteTrack(name, idx) => Quiet
               /\ \A delta \in Deltas : PmMoveTrack(name, idx, delta) => Quiet
        /\ ~in_range(idx, Len(playlists)) =>
               \A delta \in Deltas : PmMovePlaylist(idx, delta) => Quiet
      ]_vars

\* C21: once a ytdlp_info call for a url has completed, the record memoized
\* for the url is the one every later call returns: a call for a memoized url
\* returns it without invoking the extractor, and no record of a new extraction
\* takes its place in the cache.
C21_Memoized ==
    [][\A i \in Slots :
        /\ (StartBegin(i) /\ tasks[i].track.url \in ytdlp_cache) => tasks'[i].pc = "join"
        /\ ResolveDone(i) => tasks[i].track.url \notin ytdlp_cache
      ]_vars

\* C22: a start_playback that has entered the stream-replace critical section
\* leaves it and releases vc_lock, also when another start_playback arrives at
\* the section meanwhile, and the event loop goes on running coroutines.
C22_SectionCompletes ==
    /\ vc_lock ~> ~vc_lock
    /\ []<>(~loop_blocked)

\* The steps of the timer that invoke on_track_end.
PolicyStep == TickEndLoop \/ TickEndNext \/ TickEndRandom \/ TickEndStop

\* The track of PLAYING_STATE has finished and is not paused.
Finished(s, t) ==
    /\ is_playing(s)
    /\ s.duration > 0
    /\ s.start_time /= None
    /\ (IF s.paused = "True" THEN s.pause_at - s.start_time ELSE t - s.start_time) >= s.duration
    /\ s.paused /= "True"

\* C23: a tick invokes the end-of-track policy exactly when something is
\* playing, its duration is positive, elapsed_seconds has reached the duration
\* and the state is not paused: never for a duration of 0, never while paused.
C23_EndCondition ==
    [][/\ PolicyStep => Finished(st, now)
       /\ (TickShow \/ TickCrash) => ~Finished(st, now)
       /\ PolicyStep => (st.duration /= 0 /\ st.paused /= "True")
      ]_vars

\* The policy has been invoked in mode loop for a track that had been paused
\* and resumed before it finished.
C23_Witness ==
    /\ tick_pc = "post"
    /\ mode = "loop"
    /\ is_playing(st)
    /\ st.paused = "False"
    /\ st.pause_at >= 0
    /\ st.start_time >= 1
    /\ Len(tasks) >= 1
    /\ tasks[Len(tasks)].pc = "queued"

\* C24: the end of a track is handled once: after the policy has run for the
\* track PLAYING_STATE holds, no tick runs it again until start_playback has
\* populated PLAYING_STATE anew, however long the dispatched start_playback
\* takes, also when it fails, and whatever pause_toggle calls are made meanwhile.
C24_FiresOnce == [][PolicyStep => ~fired]_vars

\* No playlist is selected, or the selected playlist has no track.
NoContext == pl_sel < 0 \/ Len(playlists[pl_sel + 1].tracks) = 0

\* C25: at the end of a track in mode next or random, with no playlist
\* selected or an empty one selected, the policy does nothing: it dispatches
\* no start_playback, leaves the stream alone, and changes neither
\* current_track nor the selection nor PLAYING_STATE.
C25_NoContextNoop ==
    [][((TickEndNext \/ TickEndRandom) /\ NoContext) =>
        /\ tasks' = tasks
        /\ vc' = vc
        /\ current_track' = current_track
        /\ pl_sel' = pl_sel /\ tr_sel' = tr_sel
        /\ st' = st
      ]_vars

\* The policy has run for a finished track after the playlist it was played
\* from had been emptied or deleted.
C25_Witness ==
    /\ tick_pc = "post"
    /\ fired
    /\ mode \in {"next", "random"}
    /\ NoContext
    /\ is_playing(st)
    /\ current_track /= NoTrack
    /\ tasks = << >>

\* C26: PLAYING_STATE.clear() leaves every field at its declared default: the
\* state after a clear() is the state of a newly constructed PlayingState.
C26_ClearDefaults ==
    [][((\E i \in Slots : UpdClear(i) \/ LeaveDone(i)) \/ TickEndStop) =>
        (st' = clear(st) /\ clear(st) = DefaultState)]_vars

\* C27: elapsed_seconds is never negative: whenever it has a value and no
\* coroutine is in the middle of its writes, pause_at is not before start_time
\* on a paused state and start_time is not after the clock on a playing one.
C27_ElapsedNonNegative ==
    (running = 0 /\ is_playing(st) /\ ~elapsed_raises(st)) =>
        /\ elapsed_seconds(st, now) >= 0
        /\ st.paused = "True" => st.pause_at >= st.start_time
        /\ st.paused /= "True" => now >= st.start_time

\* C28: the debounce mark lands on the finished track only: while the stream
\* plays the track PLAYING_STATE holds and the policy has not run for that
\* track, paused is not set, however the timer's write after the dispatch
\* falls among the steps of the start_playback it dispatched.
C28_MarkOnFinishedOnly ==
    (/\ running = 0
     /\ ~fired
     /\ is_playing(st)
     /\ vc_is_playing
     /\ vc.src = ytdlp_extract(st.src_url).url) => st.paused /= "True"

\* C29: the image PLAYING_STATE holds is the one of its track: whenever a
\* track is described and preview_loaded is set, it is the image fetched from
\* the thumb_url of that track, also when a request started for an earlier
\* track answers after start_playback has populated the state anew.
C29_PreviewOfTrack ==
    (is_playing(st) /\ Truthy(st.preview_loaded)) => st.preview_loaded = st.thumb_url

\* C30: a leave is not undone by an earlier request: a start_playback that was
\* dispatched before a leave_voice which has disconnected the bot neither
\* connects to a voice channel nor populates PLAYING_STATE.
C30_LeaveHolds ==
    [][\A i \in Slots :
        (JoinConnect(i) \/ UpdTitle(i)) => ~tasks[i].left]_vars

\* C31: whenever a playlist is selected, the track list shows the tracks of
\* that playlist, after every sequence of operations on the playlists.
C31_ShownIsSelected ==
    pl_sel >= 0 => tv_items = playlists[pl_sel + 1].tracks

\* C34: rename_playlist(old, new) with old present and new absent changes
\* only the name: every playlist keeps its position and its tracks.
C34_RenameKeepsOrder ==
    [][\A old, new \in OrderNames :
          (/\ PmRenamePlaylist(old, new)
           /\ has_key(playlists, old)
           /\ ~has_key(playlists, new))
          => /\ Len(playlists') = Len(playlists)
             /\ \A i \in DOMAIN playlists :
                    playlists'[i] = IF playlists[i].name = old
                                    THEN Playlist(new, playlists[i].tracks)
                                    ELSE playlists[i]]_vars

\* C35: add_playlist with a name that exists and rename_playlist onto a name
\* that exists leave the playlists unchanged; move_playlist and move_track
\* leave them unchanged or swap two adjacent entries, and leave them unchanged
\* when the target position is outside the list.
Adjacent(s, t) ==
    \E a \in 1..(Len(s) - 1) : t = swap(s, a, a + 1)

C35_NoLoss ==
    [][/\ \A name \in OrderNames :
              (PmAddPlaylist(name) /\ has_key(playlists, name))
              => playlists' = playlists
       /\ \A old, new \in OrderNames :
              (PmRenamePlaylist(old, new) /\ has_key(playlists, new))
              => playlists' = playlists
       /\ \A index \in OrderIndices, delta \in Deltas :
              PmMovePlaylist(index, delta)
              => /\ playlists' = playlists \/ Adjacent(playlists, playlists')
                 /\ ~in_range(index + delta, Len(playlists)) => playlists' = playlists
       /\ \A name \in OrderNames, idx \in Indices, delta \in Deltas :
              (PmMoveTrack(name, idx, delta) /\ has_key(playlists, name))
              => /\ \/ playlists' = playlists
                    \/ /\ Adjacent(tracks_of(playlists, name), tracks_of(playlists', name))
                       /\ playlists' = dict_set(playlists, name, tracks_of(playlists', name))
                 /\ ~in_range(idx + delta, Len(tracks_of(playlists, name)))
                    => playlists' = playlists]_vars

\* C32: saving the track edit form modifies the track the form was opened
\* for and no other track: every other track stays in its playlist, at its
\* place among the others, with its title and url.
Others(trs) ==
    SelectSeq([k \in DOMAIN trs |-> << trs[k].title, trs[k].url >>],
              LAMBDA key : key \notin {tr_form.opened,
                                       << tr_form.tr_title, tr_form.tr_url >>})

C32_EditsOpened ==
    [][TrSave => \A p \in DOMAIN playlists :
                     Others(playlists'[p].tracks) = Others(playlists[p].tracks)]_vars

\* C33: tr_save in edit mode leaves the number of tracks over all playlists
\* unchanged, whatever became of the playlist picked in the form.
RECURSIVE TotalTracks(_, _)
TotalTracks(d, n) ==
    IF n = 0 THEN 0 ELSE Len(d[n].tracks) + TotalTracks(d, n - 1)

C33_Conserved ==
    [][TrSave => TotalTracks(playlists', Len(playlists'))
                 = TotalTracks(playlists, Len(playlists))]_vars

====
